---------------------------- MODULE Spec2Model ----------------------------
(***************************************************************************)
(* Model of ontology-tabulator (docs/app/core.js, docs/app/main.js).       *)
(*                                                                         *)
(* A JavaScript string is a sequence of characters; a character is a       *)
(* one-letter TLA+ string, except the two code points U+00C5 (LATIN        *)
(* CAPITAL LETTER A WITH RING ABOVE) and U+212B (ANGSTROM SIGN), and their *)
(* common lower case U+00E5, which are written by their code point.  The   *)
(* JavaScript value null is the one-element sequence Null, which is no     *)
(* string of characters.                                                   *)
(***************************************************************************)
EXTENDS Integers, Sequences, FiniteSets, TLC

VARIABLES
    name, pascal,                      \* toPascalCase: argument, result
    literals, best,                    \* pickBestLiteral: argument, result
    store,                             \* the N3 store, as the sequence getQuads enumerates
    subjectIri, predicateIris, preferred, \* getPreferredLiteralForPredicates
    model,                             \* buildElementTableModel: result
    query, sortIndex, sortDirection, view, \* filterAndSortRows: arguments, result
    givenFilename, detectedFormat,     \* detectRdfFormatFromFilename: argument, result
    invocations,                       \* handleFilesSelected: one record per call
    cardsContainer, tablesContainer,   \* the two DOM containers
    loadingOverlay, alerts, fileList   \* overlay shown, alert() calls, renderFileList argument

vars == <<name, pascal, literals, best, store, subjectIri, predicateIris,
          preferred, model, query, sortIndex, sortDirection, view,
          givenFilename, detectedFormat, invocations,
          cardsContainer, tablesContainer, loadingOverlay, alerts, fileList>>

nameVars == <<name, pascal>>
literalVars == <<literals, best>>
preferredVars == <<subjectIri, predicateIris, preferred>>
viewVars == <<query, sortIndex, sortDirection, view>>
formatVars == <<givenFilename, detectedFormat>>
pageVars == <<invocations, cardsContainer, tablesContainer, loadingOverlay,
              alerts, fileList>>

-----------------------------------------------------------------------------
(* Bounds of the checked instances. *)

\* longest name given to toPascalCase
MaxNameLen == 3

\* longest array given to pickBestLiteral
MaxLiterals == 3

\* most quads in a store given to getPreferredLiteralForPredicates
MaxMetaQuads == 3

\* most quads in a store given to buildElementTableModel
MaxQuads == 4

\* most quads in a store whose table is filtered and sorted
MaxViewQuads == 3

\* most files selected at once
MaxFiles == 2

\* most calls of handleFilesSelected
MaxInvocations == 2

\* characters of a file name before its ending
MaxStemLen == 2

-----------------------------------------------------------------------------
(* JavaScript strings. *)

Null == <<"null">>

LowerLetters == <<"a","b","c","d","e","f","g","h","i","j","k","l","m","n","o","p","q","r","s","t","u","v","w","x","y","z">>
UpperLetters == <<"A","B","C","D","E","F","G","H","I","J","K","L","M","N","O","P","Q","R","S","T","U","V","W","X","Y","Z">>
DigitChars == <<"0","1","2","3","4","5","6","7","8","9">>

InSeq(seq, c) == \E i \in 1..Len(seq) : seq[i] = c

IndexOf(seq, c) == CHOOSE i \in 1..Len(seq) : seq[i] = c

\* the characters the strings of the model are made of
Chars ==
    {LowerLetters[i] : i \in 1..Len(LowerLetters)}
        \cup {UpperLetters[i] : i \in 1..Len(UpperLetters)}
        \cup {DigitChars[i] : i \in 1..Len(DigitChars)}
        \cup {" ", "_", "-", ",", ";", ":", "!", "?", ".", "'", "(", ")", "@", "*",
              "/", "&", "#", "%", "+", "=", "~"}
        \cup {"U+00C5", "U+212B", "U+00E5"}

\* String.prototype.toLowerCase, character by character
LowerCaseOf ==
    [c \in Chars |->
        IF InSeq(UpperLetters, c) THEN LowerLetters[IndexOf(UpperLetters, c)]
        ELSE IF c \in {"U+00C5", "U+212B"} THEN "U+00E5"
        ELSE c]

\* String.prototype.toUpperCase, character by character
UpperCaseOf ==
    [c \in Chars |->
        IF InSeq(LowerLetters, c) THEN UpperLetters[IndexOf(LowerLetters, c)]
        ELSE IF c = "U+00E5" THEN "U+00C5"
        ELSE c]

charToLowerCase(c) == LowerCaseOf[c]

charToUpperCase(c) == UpperCaseOf[c]

toLowerCase(s) == [i \in 1..Len(s) |-> charToLowerCase(s[i])]

startsWith(s, prefix) ==
    /\ Len(prefix) <= Len(s)
    /\ SubSeq(s, 1, Len(prefix)) = prefix

endsWith(s, suffix) ==
    /\ Len(suffix) <= Len(s)
    /\ SubSeq(s, Len(s) - Len(suffix) + 1, Len(s)) = suffix

\* String.prototype.slice(n): the string without its first n characters
slice(s, n) == SubSeq(s, n + 1, Len(s))

\* String.prototype.includes
includes(s, sub) ==
    \E i \in 0..(Len(s) - Len(sub)) : SubSeq(s, i + 1, i + Len(sub)) = sub

\* Array.prototype.join
RECURSIVE join(_, _)
join(parts, sep) ==
    IF parts = <<>> THEN <<>>
    ELSE IF Len(parts) = 1 THEN parts[1]
    ELSE parts[1] \o sep \o join(Tail(parts), sep)

-----------------------------------------------------------------------------
(* String literals of the source, spelled out. *)

STR_Ontology == <<"O","n","t","o","l","o","g","y">>
STR_iri == <<"i","r","i">>
STR_en == <<"e","n">>
\* the separator of values.join('; ')
STR_semicolonSpace == <<";"," ">>

\* export const NS, core.js 106-113
NS == [ rdf     |-> <<"h","t","t","p",":","/","/","w","w","w",".","w","3",".","o","r","g","/","1","9","9","9","/","0","2","/","2","2","-","r","d","f","-","s","y","n","t","a","x","-","n","s","#">>,
        rdfs    |-> <<"h","t","t","p",":","/","/","w","w","w",".","w","3",".","o","r","g","/","2","0","0","0","/","0","1","/","r","d","f","-","s","c","h","e","m","a","#">>,
        owl     |-> <<"h","t","t","p",":","/","/","w","w","w",".","w","3",".","o","r","g","/","2","0","0","2","/","0","7","/","o","w","l","#">>,
        dc      |-> <<"h","t","t","p",":","/","/","p","u","r","l",".","o","r","g","/","d","c","/","e","l","e","m","e","n","t","s","/","1",".","1","/">>,
        dcterms |-> <<"h","t","t","p",":","/","/","p","u","r","l",".","o","r","g","/","d","c","/","t","e","r","m","s","/">>,
        skos    |-> <<"h","t","t","p",":","/","/","w","w","w",".","w","3",".","o","r","g","/","2","0","0","4","/","0","2","/","s","k","o","s","/","c","o","r","e","#">> ]

\* export const COMMON_PREFIXES, core.js 115-122, in the order of Object.entries
COMMON_PREFIXES ==
    << <<NS.rdf, <<"r","d","f">>>>, <<NS.rdfs, <<"r","d","f","s">>>>, <<NS.owl, <<"o","w","l">>>>,
       <<NS.dc, <<"d","c">>>>, <<NS.dcterms, <<"d","c","t","e","r","m","s">>>>, <<NS.skos, <<"s","k","o","s">>>> >>

\* local names the source appends to a namespace
LN_type == <<"t","y","p","e">>
LN_label == <<"l","a","b","e","l">>
LN_altLabel == <<"a","l","t","L","a","b","e","l">>
LN_definition == <<"d","e","f","i","n","i","t","i","o","n">>
LN_Ontology == <<"O","n","t","o","l","o","g","y">>
LN_Class == <<"C","l","a","s","s">>
LN_NamedIndividual == <<"N","a","m","e","d","I","n","d","i","v","i","d","u","a","l">>
LN_ObjectProperty == <<"O","b","j","e","c","t","P","r","o","p","e","r","t","y">>
LN_DatatypeProperty == <<"D","a","t","a","t","y","p","e","P","r","o","p","e","r","t","y">>
LN_AnnotationProperty == <<"A","n","n","o","t","a","t","i","o","n","P","r","o","p","e","r","t","y">>
LN_title == <<"t","i","t","l","e">>
LN_versionIRI == <<"v","e","r","s","i","o","n","I","R","I">>
LN_hasVersion == <<"h","a","s","V","e","r","s","i","o","n">>
LN_versionInfo == <<"v","e","r","s","i","o","n","I","n","f","o">>
LN_description == <<"d","e","s","c","r","i","p","t","i","o","n">>
LN_license == <<"l","i","c","e","n","s","e">>
LN_rights == <<"r","i","g","h","t","s">>
LN_accessRights == <<"a","c","c","e","s","s","R","i","g","h","t","s">>
LN_rightsHolder == <<"r","i","g","h","t","s","H","o","l","d","e","r">>

-----------------------------------------------------------------------------
(* toPascalCase, core.js 376-395 *)

\* the character class [A-Za-z0-9]
AlnumChars ==
    {c \in Chars : InSeq(LowerLetters, c) \/ InSeq(UpperLetters, c) \/ InSeq(DigitChars, c)}

IsAlnum(c) == c \in AlnumChars

\* .replace(/[^A-Za-z0-9]+/g, ' '): every maximal run of other characters
\* becomes one space
RECURSIVE replaceNonAlnumRuns(_)
replaceNonAlnumRuns(s) ==
    IF s = <<>> THEN <<>>
    ELSE IF IsAlnum(s[1]) THEN <<s[1]>> \o replaceNonAlnumRuns(Tail(s))
    ELSE IF Len(s) > 1 /\ ~IsAlnum(s[2]) THEN replaceNonAlnumRuns(Tail(s))
    ELSE <<" ">> \o replaceNonAlnumRuns(Tail(s))

\* .trim()
RECURSIVE trim(_)
trim(s) ==
    IF s = <<>> THEN <<>>
    ELSE IF s[1] = " " THEN trim(Tail(s))
    ELSE IF s[Len(s)] = " " THEN trim(SubSeq(s, 1, Len(s) - 1))
    ELSE s

\* .split(/\s+/): the pieces between the runs of spaces; a string without a
\* space, the empty string included, is its own single piece
RECURSIVE splitOnSpaces(_, _)
splitOnSpaces(s, piece) ==
    IF s = <<>> THEN <<piece>>
    ELSE IF s[1] = " " THEN
        IF Len(s) > 1 /\ s[2] = " " THEN splitOnSpaces(Tail(s), piece)
        ELSE <<piece>> \o splitOnSpaces(Tail(s), <<>>)
    ELSE splitOnSpaces(Tail(s), Append(piece, s[1]))

\* p.charAt(0).toUpperCase() + p.slice(1)
capitalize(p) ==
    IF p = <<>> THEN <<>> ELSE <<charToUpperCase(p[1])>> \o slice(p, 1)

toPascalCase(nm) ==
    IF nm = Null \/ nm = <<>> THEN STR_Ontology
    ELSE LET parts == splitOnSpaces(trim(replaceNonAlnumRuns(nm)), <<>>)
         IN  IF Len(parts) = 0 THEN STR_Ontology
             ELSE join([i \in 1..Len(parts) |-> capitalize(parts[i])], <<>>)

-----------------------------------------------------------------------------
(* RDF terms, quads and the store (the n3 library, as core.js uses it). *)

namedNode(v) == [termType |-> "NamedNode", value |-> v, language |-> <<>>]
blankNode(v) == [termType |-> "BlankNode", value |-> v, language |-> <<>>]
literal(v, lang) == [termType |-> "Literal", value |-> v, language |-> lang]

\* null or undefined where a term is expected
NullTerm == [termType |-> "Null", value |-> <<>>, language |-> <<>>]

\* null where an array of literals is expected
NullList == <<NullTerm>>

quad(s, p, o) == [subject |-> s, predicate |-> p, object |-> o]

\* store.createNamedNode(iri)
createNamedNode(iri) == namedNode(iri)

\* store.getQuads(s, p, o, null): the quads matching the pattern, in the
\* order the store enumerates them; NullTerm is the wildcard null
getQuads(st, s, p, o) ==
    SelectSeq(st, LAMBDA q : /\ (s = NullTerm \/ q.subject = s)
                             /\ (p = NullTerm \/ q.predicate = p)
                             /\ (o = NullTerm \/ q.object = o))

\* Array.prototype.find over terms: the first element passing the test, or
\* undefined; passing is the set of the positions whose element passes
findTerm(seq, passing) ==
    IF passing = {} THEN NullTerm
    ELSE seq[CHOOSE i \in passing : \A j \in passing : i <= j]

isBlankNode(term) == term # NullTerm /\ term.termType = "BlankNode"

getOntologySubjectIri(st) ==
    LET candidates == getQuads(st, NullTerm, createNamedNode(NS.rdf \o LN_type),
                               createNamedNode(NS.owl \o LN_Ontology))
    IN  IF Len(candidates) = 0 THEN Null ELSE candidates[1].subject.value

\* pickBestLiteral comparing the language tag with 'en' as it is written
pickBestLiteralCaseSensitive(lits) ==
    IF lits = NullList \/ Len(lits) = 0 THEN NullTerm
    ELSE LET withLang == SelectSeq(lits, LAMBDA l : l.language # <<>>)
             en == findTerm(withLang, {i \in DOMAIN withLang : withLang[i].language = STR_en})
             noLang == findTerm(lits, {i \in DOMAIN lits : lits[i].language = <<>>})
         IN  IF en # NullTerm THEN en
             ELSE IF noLang # NullTerm THEN noLang
             ELSE lits[1]

pickBestLiteral(lits) ==
    IF lits = NullList \/ Len(lits) = 0 THEN NullTerm
    ELSE LET withLang == SelectSeq(lits, LAMBDA l : l.language # <<>>)
             en == findTerm(withLang,
                       {i \in DOMAIN withLang : toLowerCase(withLang[i].language) = STR_en})
             noLang == findTerm(lits, {i \in DOMAIN lits : lits[i].language = <<>>})
         IN  IF en # NullTerm THEN en
             ELSE IF noLang # NullTerm THEN noLang
             ELSE lits[1]

\* quads.map(q => q.object)
objectsOf(quads) == [i \in 1..Len(quads) |-> quads[i].object]

\* getPreferredLiteralForPredicates choosing among the literals of all the
\* listed predicates together
getPreferredLiteralMerged(st, subjIri, predIris) ==
    LET subj == createNamedNode(subjIri)
        quads == SelectSeq(st, LAMBDA q : /\ q.subject = subj
                                          /\ \E i \in 1..Len(predIris) :
                                                q.predicate = createNamedNode(predIris[i]))
        lits == SelectSeq(objectsOf(quads), LAMBDA o : o.termType = "Literal")
        bestLit == pickBestLiteral(lits)
    IN  IF bestLit # NullTerm THEN bestLit.value ELSE Null

RECURSIVE getPreferredLiteralForPredicates(_, _, _)
getPreferredLiteralForPredicates(st, subjIri, predIris) ==
    IF predIris = <<>> THEN Null
    ELSE LET subj == createNamedNode(subjIri)
             pred == createNamedNode(predIris[1])
             quads == getQuads(st, subj, pred, NullTerm)
             lits == SelectSeq(objectsOf(quads), LAMBDA o : o.termType = "Literal")
             bestLit == pickBestLiteral(lits)
         IN  IF bestLit # NullTerm THEN bestLit.value
             ELSE getPreferredLiteralForPredicates(st, subjIri, Tail(predIris))

RECURSIVE getPreferredIriForPredicates(_, _, _)
getPreferredIriForPredicates(st, subjIri, predIris) ==
    IF predIris = <<>> THEN Null
    ELSE LET subj == createNamedNode(subjIri)
             pred == createNamedNode(predIris[1])
             quads == getQuads(st, subj, pred, NullTerm)
             objs == objectsOf(quads)
             iriObj == findTerm(objs, {i \in DOMAIN objs : objs[i].termType = "NamedNode"})
         IN  IF iriObj # NullTerm THEN iriObj.value
             ELSE getPreferredIriForPredicates(st, subjIri, Tail(predIris))

extractOntologyMetadata(st) ==
    LET ontologyIri == getOntologySubjectIri(st)
        S == ontologyIri
    IN  IF ontologyIri = Null \/ ontologyIri = <<>> THEN
            [ontologyIri |-> Null, ontologyName |-> Null, versionIri |-> Null,
             versionInfo |-> Null, description |-> Null, license |-> Null,
             rightsHolder |-> Null]
        ELSE
            [ontologyIri |-> S,
             ontologyName |-> getPreferredLiteralForPredicates(st, S,
                 <<NS.rdfs \o LN_label, NS.dcterms \o LN_title, NS.dc \o LN_title>>),
             versionIri |-> getPreferredIriForPredicates(st, S,
                 <<NS.owl \o LN_versionIRI, NS.dcterms \o LN_hasVersion>>),
             versionInfo |-> getPreferredLiteralForPredicates(st, S,
                 <<NS.owl \o LN_versionInfo, NS.dcterms \o LN_hasVersion>>),
             description |-> getPreferredLiteralForPredicates(st, S,
                 <<NS.skos \o LN_definition, NS.dcterms \o LN_description,
                   NS.dc \o LN_description>>),
             license |-> getPreferredIriForPredicates(st, S,
                 <<NS.dcterms \o LN_license, NS.dcterms \o LN_rights,
                   NS.dc \o LN_rights, NS.dcterms \o LN_accessRights>>),
             rightsHolder |-> getPreferredLiteralForPredicates(st, S,
                 <<NS.dcterms \o LN_rightsHolder>>)]

interestingTypes ==
    <<NS.owl \o LN_Class, NS.owl \o LN_NamedIndividual, NS.owl \o LN_ObjectProperty,
      NS.owl \o LN_DatatypeProperty, NS.owl \o LN_AnnotationProperty>>

shouldIncludeElementSubject(st, subject) ==
    IF subject = NullTerm \/ subject.termType # "NamedNode" THEN FALSE
    ELSE LET typePred == createNamedNode(NS.rdf \o LN_type)
             typeQuads == getQuads(st, subject, typePred, NullTerm)
             types == [i \in 1..Len(typeQuads) |-> typeQuads[i].object.value]
         IN  \E i \in 1..Len(types) : InSeq(interestingTypes, types[i])

iriToCurieIfCommon(iri) ==
    LET hits == {i \in 1..Len(COMMON_PREFIXES) : startsWith(iri, COMMON_PREFIXES[i][1])}
    IN  IF hits = {} THEN iri
        ELSE LET first == CHOOSE i \in hits : \A j \in hits : i <= j
                 ns == COMMON_PREFIXES[first][1]
                 prefix == COMMON_PREFIXES[first][2]
             IN  prefix \o <<":">> \o slice(iri, Len(ns))

-----------------------------------------------------------------------------
(* String.prototype.localeCompare, as core.js 481 and 553 call it (no locale, *)
(* no options): the root collation of ICU at its default strength.  Strings   *)
(* are compared by the primary weights of their characters (the letter or     *)
(* sign itself), then by the secondary weights (accents), then by the         *)
(* tertiary weights (case, lower case first).  Strings that agree on all      *)
(* three compare equal: ECMA-262 requires 0 for canonically equivalent        *)
(* strings such as U+00C5 and U+212B.                                         *)

\* the characters of the model by ascending primary weight
PrimaryOrder == <<" ","_","-",",",";",":","!","?",".","'","(",")","@","*","/","&","#","%","+","=","~","0","1","2","3","4","5","6","7","8","9","a","b","c","d","e","f","g","h","i","j","k","l","m","n","o","p","q","r","s","t","u","v","w","x","y","z">>

\* the letter without its accent and case
baseChar(c) ==
    IF c \in {"U+00C5", "U+212B", "U+00E5"} THEN "a" ELSE charToLowerCase(c)

PrimaryWeightOf == [c \in Chars |-> IndexOf(PrimaryOrder, baseChar(c))]

SecondaryWeightOf == [c \in Chars |-> IF c \in {"U+00C5", "U+212B", "U+00E5"} THEN 1 ELSE 0]

TertiaryWeightOf ==
    [c \in Chars |-> IF InSeq(UpperLetters, c) \/ c \in {"U+00C5", "U+212B"} THEN 1 ELSE 0]

primaryWeight(c) == PrimaryWeightOf[c]

secondaryWeight(c) == SecondaryWeightOf[c]

tertiaryWeight(c) == TertiaryWeightOf[c]

\* lexicographic comparison of two sequences of weights: -1, 0 or 1
RECURSIVE compareWeights(_, _)
compareWeights(a, b) ==
    IF a = <<>> /\ b = <<>> THEN 0
    ELSE IF a = <<>> THEN -1
    ELSE IF b = <<>> THEN 1
    ELSE IF a[1] < b[1] THEN -1
    ELSE IF a[1] > b[1] THEN 1
    ELSE compareWeights(Tail(a), Tail(b))

localeCompare(a, b) ==
    LET p == compareWeights([i \in 1..Len(a) |-> primaryWeight(a[i])],
                            [i \in 1..Len(b) |-> primaryWeight(b[i])])
        s == compareWeights([i \in 1..Len(a) |-> secondaryWeight(a[i])],
                            [i \in 1..Len(b) |-> secondaryWeight(b[i])])
        t == compareWeights([i \in 1..Len(a) |-> tertiaryWeight(a[i])],
                            [i \in 1..Len(b) |-> tertiaryWeight(b[i])])
    IN  IF p # 0 THEN p ELSE IF s # 0 THEN s ELSE t

\* Array.prototype.sort with a comparator, given as the function cmp over
\* the pairs of elements: the sort is stable, so an element goes behind every
\* element that does not compare greater than it
insertSorted(sorted, x, cmp) ==
    LET k == Cardinality({j \in 1..Len(sorted) : cmp[sorted[j], x] <= 0})
    IN  SubSeq(sorted, 1, k) \o <<x>> \o SubSeq(sorted, k + 1, Len(sorted))

stableSort(seq, cmp) ==
    LET f[i \in 0..Len(seq)] ==
            IF i = 0 THEN <<>> ELSE insertSorted(f[i - 1], seq[i], cmp)
    IN  f[Len(seq)]

-----------------------------------------------------------------------------
(* buildElementTableModel, core.js 411-515 *)

\* A JavaScript Map is the sequence of its entries in insertion order.
mapHas(m, k) == \E i \in 1..Len(m) : m[i].key = k

mapGet(m, k) == m[CHOOSE i \in 1..Len(m) : m[i].key = k].val

mapKeys(m) == [i \in 1..Len(m) |-> m[i].key]

\* Map.prototype.set: a new key goes last, a known key keeps its place
mapSet(m, k, v) ==
    IF mapHas(m, k)
    THEN [i \in 1..Len(m) |-> IF m[i].key = k THEN [key |-> k, val |-> v] ELSE m[i]]
    ELSE Append(m, [key |-> k, val |-> v])

\* the turn of the loop without the test of the object for a blank node
groupQuadKeepingBlankObjects(subjectMap, q) ==
    IF isBlankNode(q.subject) THEN subjectMap
    ELSE LET subjIri == q.subject.value
             predIri == q.predicate.value
             predMap == IF mapHas(subjectMap, subjIri)
                        THEN mapGet(subjectMap, subjIri) ELSE <<>>
             value == q.object.value
             arr == IF mapHas(predMap, predIri)
                    THEN mapGet(predMap, predIri) ELSE <<>>
             pushed == IF InSeq(arr, value) THEN arr ELSE Append(arr, value)
         IN  mapSet(subjectMap, subjIri, mapSet(predMap, predIri, pushed))

\* one turn of the loop over allQuads, core.js 427-459
groupQuad(subjectMap, q) ==
    IF isBlankNode(q.subject) THEN subjectMap
    ELSE IF isBlankNode(q.object) THEN subjectMap
    ELSE LET subjIri == q.subject.value
             predIri == q.predicate.value
             predMap == IF mapHas(subjectMap, subjIri)
                        THEN mapGet(subjectMap, subjIri) ELSE <<>>
             obj == q.object
         IN  IF obj.termType \notin {"Literal", "NamedNode"}
             THEN mapSet(subjectMap, subjIri, predMap)
             ELSE LET value == obj.value
                      arr == IF mapHas(predMap, predIri)
                             THEN mapGet(predMap, predIri) ELSE <<>>
                      pushed == IF InSeq(arr, value) THEN arr ELSE Append(arr, value)
                  IN  mapSet(subjectMap, subjIri, mapSet(predMap, predIri, pushed))

\* the subjectMap after the loop over allQuads
groupQuads(allQuads) ==
    LET f[i \in 0..Len(allQuads)] ==
            IF i = 0 THEN <<>> ELSE groupQuad(f[i - 1], allQuads[i])
    IN  f[Len(allQuads)]

\* a Set filled with the elements of seq in turn, as Array.from lists it
RECURSIVE insertionOrderedSet(_)
insertionOrderedSet(seq) ==
    IF seq = <<>> THEN <<>>
    ELSE LET front == insertionOrderedSet(SubSeq(seq, 1, Len(seq) - 1))
             last == seq[Len(seq)]
         IN  IF InSeq(front, last) THEN front ELSE Append(front, last)

RECURSIVE concatAll(_)
concatAll(seqs) == IF seqs = <<>> THEN <<>> ELSE seqs[1] \o concatAll(Tail(seqs))

priorityPreds ==
    <<NS.rdf \o LN_type, NS.rdfs \o LN_label, NS.skos \o LN_altLabel,
      NS.skos \o LN_definition>>

\* core.js 462-464
elementSubjectsOf(st, subjectMap) ==
    LET nodes == [i \in 1..Len(subjectMap) |-> createNamedNode(subjectMap[i].key)]
    IN  SelectSeq(nodes, LAMBDA subj : shouldIncludeElementSubject(st, subj))

\* core.js 467-477
usedPredsOf(subjectMap, elementSubjects) ==
    insertionOrderedSet(concatAll(
        [i \in 1..Len(elementSubjects) |->
            mapKeys(mapGet(subjectMap, elementSubjects[i].value))]))

\* core.js 480-483
orderedPredicatesOf(usedPreds) ==
    LET nonPriority == SelectSeq(usedPreds, LAMBDA p : ~InSeq(priorityPreds, p))
        others == {nonPriority[i] : i \in DOMAIN nonPriority}
        sorted == stableSort(nonPriority,
                     [a \in others, b \in others |->
                         localeCompare(iriToCurieIfCommon(a),
                                       iriToCurieIfCommon(b))])
    IN  SelectSeq(priorityPreds, LAMBDA p : InSeq(usedPreds, p)) \o sorted

\* core.js 489-499: a row is the record keyed by 'iri' and by the predicates
rowOf(subjectMap, orderedPredicates, subj) ==
    LET predMap == IF mapHas(subjectMap, subj.value)
                   THEN mapGet(subjectMap, subj.value) ELSE <<>>
        keys == {STR_iri} \cup {orderedPredicates[i] : i \in 1..Len(orderedPredicates)}
    IN  [k \in keys |->
            IF InSeq(orderedPredicates, k)
            THEN join(IF mapHas(predMap, k) THEN mapGet(predMap, k) ELSE <<>>,
                      STR_semicolonSpace)
            ELSE subj.value]

buildElementTableModel(st) ==
    LET allQuads == getQuads(st, NullTerm, NullTerm, NullTerm)
        subjectMap == groupQuads(allQuads)
        elementSubjects == elementSubjectsOf(st, subjectMap)
        usedPreds == usedPredsOf(subjectMap, elementSubjects)
        orderedPredicates == orderedPredicatesOf(usedPreds)
    IN  [headers |-> <<STR_iri>> \o
                     [i \in 1..Len(orderedPredicates) |->
                         iriToCurieIfCommon(orderedPredicates[i])],
         predicates |-> <<Null>> \o orderedPredicates,
         rows |-> [i \in 1..Len(elementSubjects) |->
                      rowOf(subjectMap, orderedPredicates, elementSubjects[i])]]

-----------------------------------------------------------------------------
(* filterAndSortRows, core.js 529-562 *)

\* a column index or a query may be null: NoIndex is null, <<n>> the number n
NoIndex == <<>>

\* Object.values(row).some(v => String(v).toLowerCase().includes(q))
rowMatches(row, q) == \E k \in DOMAIN row : includes(toLowerCase(row[k]), q)

\* filterAndSortRows taking the query as it is written
filterAndSortRowsQueryAsWritten(m, qry, sortIdx, sortDir) ==
    LET q == IF qry = Null THEN <<>> ELSE qry
        filtered == IF q # <<>>
                    THEN SelectSeq(m.rows, LAMBDA row : rowMatches(row, q))
                    ELSE m.rows
    IN  IF sortIdx = NoIndex \/ sortIdx[1] < 0 \/ sortIdx[1] >= Len(m.headers)
        THEN filtered
        ELSE LET headerKey == IF sortIdx[1] = 0 THEN STR_iri
                              ELSE m.predicates[sortIdx[1] + 1]
             IN  IF headerKey = Null \/ headerKey = <<>> THEN filtered
                 ELSE LET kept == {filtered[i] : i \in DOMAIN filtered}
                      IN  stableSort(filtered,
                             [a \in kept, b \in kept |->
                                 LET cmp == localeCompare(a[headerKey], b[headerKey])
                                 IN  IF sortDir = "asc" THEN cmp ELSE -cmp])

\* filterAndSortRows sorting ascending whatever the direction
filterAndSortRowsAlwaysAscending(m, qry, sortIdx, sortDir) ==
    LET q == toLowerCase(IF qry = Null THEN <<>> ELSE qry)
        filtered == IF q # <<>>
                    THEN SelectSeq(m.rows, LAMBDA row : rowMatches(row, q))
                    ELSE m.rows
    IN  IF sortIdx = NoIndex \/ sortIdx[1] < 0 \/ sortIdx[1] >= Len(m.headers)
        THEN filtered
        ELSE LET headerKey == IF sortIdx[1] = 0 THEN STR_iri
                              ELSE m.predicates[sortIdx[1] + 1]
             IN  IF headerKey = Null \/ headerKey = <<>> THEN filtered
                 ELSE LET kept == {filtered[i] : i \in DOMAIN filtered}
                      IN  stableSort(filtered,
                             [a \in kept, b \in kept |->
                                 localeCompare(a[headerKey], b[headerKey])])

filterAndSortRows(m, qry, sortIdx, sortDir) ==
    LET q == toLowerCase(IF qry = Null THEN <<>> ELSE qry)
        filtered == IF q # <<>>
                    THEN SelectSeq(m.rows, LAMBDA row : rowMatches(row, q))
                    ELSE m.rows
    IN  IF sortIdx = NoIndex \/ sortIdx[1] < 0 \/ sortIdx[1] >= Len(m.headers)
        THEN filtered
        ELSE LET headerKey == IF sortIdx[1] = 0 THEN STR_iri
                              ELSE m.predicates[sortIdx[1] + 1]
             IN  IF headerKey = Null \/ headerKey = <<>> THEN filtered
                 ELSE LET kept == {filtered[i] : i \in DOMAIN filtered}
                      IN  stableSort(filtered,
                             [a \in kept, b \in kept |->
                                 LET cmp == localeCompare(a[headerKey], b[headerKey])
                                 IN  IF sortDir = "asc" THEN cmp ELSE -cmp])

\* The arrays filterAndSortRows works on, by the name of the one that holds
\* them: rows is model.rows, filtered the array made by Array.prototype.filter,
\* copy the array made by the spread [...filtered].  The variable filtered of
\* the code refers to model.rows itself unless there is a query, and
\* Array.prototype.sort writes the sorted elements into its receiver.
arraysAfterSortInPlace(m, qry, sortIdx, sortDir) ==
    LET q == toLowerCase(IF qry = Null THEN <<>> ELSE qry)
        filteredRef == IF q # <<>> THEN "filtered" ELSE "rows"
        made == [rows |-> m.rows,
                 filtered |-> SelectSeq(m.rows, LAMBDA row : rowMatches(row, q)),
                 copy |-> <<>>]
    IN  IF sortIdx = NoIndex \/ sortIdx[1] < 0 \/ sortIdx[1] >= Len(m.headers)
        THEN made
        ELSE LET headerKey == IF sortIdx[1] = 0 THEN STR_iri
                              ELSE m.predicates[sortIdx[1] + 1]
             IN  IF headerKey = Null \/ headerKey = <<>> THEN made
                 ELSE [made EXCEPT ![filteredRef] =
                          filterAndSortRows(m, qry, sortIdx, sortDir)]

arraysAfterFilterAndSortRows(m, qry, sortIdx, sortDir) ==
    LET q == toLowerCase(IF qry = Null THEN <<>> ELSE qry)
        filteredRef == IF q # <<>> THEN "filtered" ELSE "rows"
        made == [rows |-> m.rows,
                 filtered |-> SelectSeq(m.rows, LAMBDA row : rowMatches(row, q)),
                 copy |-> <<>>]
    IN  IF sortIdx = NoIndex \/ sortIdx[1] < 0 \/ sortIdx[1] >= Len(m.headers)
        THEN made
        ELSE LET headerKey == IF sortIdx[1] = 0 THEN STR_iri
                              ELSE m.predicates[sortIdx[1] + 1]
             IN  IF headerKey = Null \/ headerKey = <<>> THEN made
                 ELSE [made EXCEPT !["copy"] =
                          filterAndSortRows(m, qry, sortIdx, sortDir)]

\* the model as the call leaves it: headers and predicates are only read, no
\* row object is assigned to, and model.rows holds what the call left in it
modelAfterFilterAndSortRows(m, qry, sortIdx, sortDir) ==
    [m EXCEPT !.rows = arraysAfterFilterAndSortRows(m, qry, sortIdx, sortDir).rows]

-----------------------------------------------------------------------------
(* The inputs the functions are applied to. *)

\* a result variable holds NotCalled until its function has returned, then
\* Returned(value)
NotCalled == <<>>
Returned(v) == <<v>>

\* all strings of at most n characters over the set chars
StringsUpTo(chars, n) == UNION {[1..k -> chars] : k \in 0..n}

\* all sequences of at most n different elements of pool
DistinctSeqsUpTo(pool, n) ==
    UNION {{s \in [1..k -> pool] : \A i, j \in 1..k : i # j => s[i] # s[j]} : k \in 0..n}

NameChars == {"a", "B", "1", " ", "-"}
NameInputs == {Null} \cup StringsUpTo(NameChars, MaxNameLen)

\* literals as n3 hands them over: a value and a language tag, '' for none
LiteralPool ==
    {literal(v, lang) : v \in {<<"p">>, <<"q">>},
                        lang \in {<<>>, <<"e","n">>, <<"E","N">>, <<"f","r">>}}
LiteralInputs == {NullList} \cup UNION {[1..k -> LiteralPool] : k \in 0..MaxLiterals}

\* IRIs of the example documents
EX_A == <<"e","x",":","A">>
EX_B == <<"e","x",":","B">>
EX_b == <<"e","x",":","b">>
EX_O == <<"e","x",":","O">>
EX_Other == <<"e","x",":","O","t","h","e","r">>
EX_p == <<"e","x",":","p">>
\* the same name spelled with U+00C5 and with U+212B
EX_Aring == <<"e", "x", ":", "U+00C5">>
EX_Angstrom == <<"e", "x", ":", "U+212B">>
\* an IRI of the scheme rdfs, which reads like the CURIE of rdfs:comment
IRI_rdfsColonComment == <<"r","d","f","s",":","c","o","m","m","e","n","t">>
LN_comment == <<"c","o","m","m","e","n","t">>
\* the label of a blank node
BN_b0 == <<"b","0">>

rdfType == NS.rdf \o LN_type

\* the ontology header of a document and its annotations
MetaQuadPool ==
    { quad(namedNode(EX_O), namedNode(NS.rdfs \o LN_label), literal(<<"L">>, <<"f","r">>)),
      quad(namedNode(EX_O), namedNode(NS.rdfs \o LN_label), namedNode(EX_A)),
      quad(namedNode(EX_O), namedNode(NS.dcterms \o LN_title), literal(<<"T">>, <<"e","n">>)),
      quad(namedNode(EX_O), namedNode(NS.dcterms \o LN_title), literal(<<>>, <<>>)),
      quad(namedNode(EX_O), namedNode(NS.dc \o LN_title), literal(<<"D">>, <<>>)),
      quad(namedNode(EX_B), namedNode(NS.rdfs \o LN_label), literal(<<"Z">>, <<"e","n">>)) }
MetaStores == DistinctSeqsUpTo(MetaQuadPool, MaxMetaQuads)
PredicateLists ==
    { <<NS.rdfs \o LN_label, NS.dcterms \o LN_title, NS.dc \o LN_title>>,
      <<NS.dcterms \o LN_title, NS.rdfs \o LN_label>>,
      <<NS.dc \o LN_title>>,
      <<>> }

\* the elements of a document
TableQuadPool ==
    { quad(namedNode(EX_A), namedNode(rdfType), namedNode(NS.owl \o LN_Class)),
      quad(namedNode(EX_A), namedNode(rdfType), literal(NS.owl \o LN_Class, <<>>)),
      quad(namedNode(EX_A), namedNode(NS.rdfs \o LN_label), literal(<<"x">>, <<"e","n">>)),
      quad(namedNode(EX_A), namedNode(NS.rdfs \o LN_label), literal(<<"x">>, <<"f","r">>)),
      quad(namedNode(EX_A), namedNode(NS.rdfs \o LN_label), literal(<<"y">>, <<>>)),
      quad(namedNode(EX_A), namedNode(NS.rdfs \o LN_comment), literal(<<"y">>, <<>>)),
      quad(namedNode(EX_A), namedNode(IRI_rdfsColonComment), literal(<<"x">>, <<"e","n">>)),
      quad(namedNode(EX_A), namedNode(EX_p), blankNode(BN_b0)),
      quad(namedNode(EX_B), namedNode(rdfType), namedNode(NS.owl \o LN_ObjectProperty)),
      quad(namedNode(EX_B), namedNode(rdfType), namedNode(EX_Other)),
      quad(namedNode(EX_B), namedNode(NS.rdfs \o LN_label), literal(<<"x">>, <<"e","n">>)),
      quad(blankNode(BN_b0), namedNode(rdfType), namedNode(NS.owl \o LN_Class)) }
TableStores == DistinctSeqsUpTo(TableQuadPool, MaxQuads)

\* elements whose names differ in case, or only in the code point of a letter
ViewQuadPool ==
    { quad(namedNode(EX_b), namedNode(rdfType), namedNode(NS.owl \o LN_Class)),
      quad(namedNode(EX_A), namedNode(rdfType), namedNode(NS.owl \o LN_Class)),
      quad(namedNode(EX_Aring), namedNode(rdfType), namedNode(NS.owl \o LN_Class)),
      quad(namedNode(EX_Angstrom), namedNode(rdfType), namedNode(NS.owl \o LN_Class)),
      quad(namedNode(EX_A), namedNode(NS.rdfs \o LN_label), literal(<<"A","b">>, <<>>)) }
ViewStores == DistinctSeqsUpTo(ViewQuadPool, MaxViewQuads)
Queries == {Null, <<>>, <<"a","b">>, <<"E","X",":","B">>}
SortIndexes == {NoIndex, <<-1>>, <<0>>, <<2>>}
\* file names: a stem followed by an ending, an extension in some letter case
\* or something that is not one
StemChars == {"a", ".", "N", "t"}
FilenameEndings ==
    { <<>>,
      <<".","t","t","l">>, <<".","T","T","L">>, <<".","T","t","l">>,
      <<".","n","3">>, <<".","N","3">>,
      <<".","n","t">>, <<".","N","T">>, <<".","n","T">>,
      <<".","n","q">>, <<".","N","Q">>, <<".","N","q">>,
      <<".","t","r","i","g">>, <<".","T","R","I","G">>, <<".","T","r","i","G">>,
      <<".","r","d","f">>, <<".","t","t">>, <<".","t","t","l","x">>,
      <<"t","t","l">>, <<"n","t">>, <<"t","r","i","g">>, <<".","n","t",".">>,
      <<".","t","t","l"," ">>, <<".","n","q",".","t","x","t">> }
FilenameInputs ==
    {Null} \cup {stem \o ending : stem \in StringsUpTo(StemChars, MaxStemLen),
                                  ending \in FilenameEndings}
SortDirections == {"asc", "desc"}

-----------------------------------------------------------------------------
(* Each function applied to its inputs. *)

NameIdle == name = Null /\ pascal = NotCalled
LiteralIdle == literals = NullList /\ best = NotCalled
PreferredIdle == subjectIri = Null /\ predicateIris = <<>> /\ preferred = NotCalled
ViewIdle == query = Null /\ sortIndex = NoIndex /\ sortDirection = "asc" /\ view = NotCalled
TableIdle == store = <<>> /\ model = NotCalled
FormatIdle == givenFilename = Null /\ detectedFormat = NotCalled
PageIdle ==
    /\ invocations = <<>>
    /\ cardsContainer = <<>>
    /\ tablesContainer = <<>>
    /\ loadingOverlay = FALSE
    /\ alerts = 0
    /\ fileList = NotCalled

InitName ==
    /\ name \in NameInputs
    /\ pascal = NotCalled
    /\ LiteralIdle /\ PreferredIdle /\ TableIdle /\ ViewIdle /\ FormatIdle /\ PageIdle

CallToPascalCase ==
    /\ pascal = NotCalled
    /\ pascal' = Returned(toPascalCase(name))
    /\ UNCHANGED <<name, formatVars, literalVars, store, preferredVars, model, viewVars, pageVars>>

SpecName == InitName /\ [][CallToPascalCase]_vars

InitLiteral ==
    /\ literals \in LiteralInputs
    /\ best = NotCalled
    /\ NameIdle /\ PreferredIdle /\ TableIdle /\ ViewIdle /\ FormatIdle /\ PageIdle

CallPickBestLiteral ==
    /\ best = NotCalled
    /\ best' = Returned(pickBestLiteral(literals))
    /\ UNCHANGED <<nameVars, formatVars, literals, store, preferredVars, model, viewVars, pageVars>>

SpecLiteral == InitLiteral /\ [][CallPickBestLiteral]_vars

InitPreferred ==
    /\ store \in MetaStores
    /\ subjectIri = EX_O
    /\ predicateIris \in PredicateLists
    /\ preferred = NotCalled
    /\ model = NotCalled
    /\ NameIdle /\ LiteralIdle /\ ViewIdle /\ FormatIdle /\ PageIdle

CallGetPreferredLiteral ==
    /\ preferred = NotCalled
    /\ preferred' = Returned(getPreferredLiteralForPredicates(store, subjectIri,
                                                              predicateIris))
    /\ UNCHANGED <<nameVars, formatVars, literalVars, store, subjectIri, predicateIris, model,
                   viewVars, pageVars>>

SpecPreferred == InitPreferred /\ [][CallGetPreferredLiteral]_vars

InitTable ==
    /\ store \in TableStores
    /\ model = NotCalled
    /\ NameIdle /\ LiteralIdle /\ PreferredIdle /\ ViewIdle /\ FormatIdle /\ PageIdle

CallBuildElementTableModel ==
    /\ model = NotCalled
    /\ model' = Returned(buildElementTableModel(store))
    /\ UNCHANGED <<nameVars, formatVars, literalVars, store, preferredVars, viewVars, pageVars>>

SpecTable == InitTable /\ [][CallBuildElementTableModel]_vars

InitView ==
    /\ store \in ViewStores
    /\ model = NotCalled
    /\ NameIdle /\ LiteralIdle /\ PreferredIdle /\ ViewIdle /\ FormatIdle /\ PageIdle

CallFilterAndSortRows ==
    /\ model # NotCalled
    /\ \E q \in Queries, i \in SortIndexes, d \in SortDirections :
        /\ query' = q
        /\ sortIndex' = i
        /\ sortDirection' = d
        /\ view' = Returned(filterAndSortRows(model[1], q, i, d))
        /\ model' = Returned(modelAfterFilterAndSortRows(model[1], q, i, d))
    /\ UNCHANGED <<nameVars, formatVars, literalVars, store, preferredVars, pageVars>>

NextView == CallBuildElementTableModel \/ CallFilterAndSortRows

SpecView == InitView /\ [][NextView]_vars

-----------------------------------------------------------------------------
(* detectRdfFormatFromFilename, core.js 31-55 *)

\* detectRdfFormatFromFilename looking for the extension in the name as written
detectRdfFormatCaseSensitive(filename) ==
    LET lower == IF filename = Null THEN <<>> ELSE filename
    IN  IF endsWith(lower, <<".","t","t","l">>) \/ endsWith(lower, <<".","n","3">>) THEN "text/turtle"
        ELSE IF endsWith(lower, <<".","n","t">>) THEN "application/n-triples"
        ELSE IF endsWith(lower, <<".","n","q">>) THEN "application/n-quads"
        ELSE IF endsWith(lower, <<".","t","r","i","g">>) THEN "application/trig"
        ELSE "text/turtle"

detectRdfFormatFromFilename(filename) ==
    LET lower == toLowerCase(IF filename = Null THEN <<>> ELSE filename)
    IN  IF endsWith(lower, <<".","t","t","l">>) \/ endsWith(lower, <<".","n","3">>) THEN "text/turtle"
        ELSE IF endsWith(lower, <<".","n","t">>) THEN "application/n-triples"
        ELSE IF endsWith(lower, <<".","n","q">>) THEN "application/n-quads"
        ELSE IF endsWith(lower, <<".","t","r","i","g">>) THEN "application/trig"
        ELSE "text/turtle"

InitFormat ==
    /\ givenFilename \in FilenameInputs
    /\ detectedFormat = NotCalled
    /\ NameIdle /\ LiteralIdle /\ PreferredIdle /\ TableIdle /\ ViewIdle /\ PageIdle

CallDetectRdfFormatFromFilename ==
    /\ detectedFormat = NotCalled
    /\ detectedFormat' = Returned(detectRdfFormatFromFilename(givenFilename))
    /\ UNCHANGED <<nameVars, givenFilename, literalVars, store, preferredVars, model,
                   viewVars, pageVars>>

SpecFormat == InitFormat /\ [][CallDetectRdfFormatFromFilename]_vars

-----------------------------------------------------------------------------
(* parseRdfTextToStore, core.js 81-103.  The text of a file is what the n3   *)
(* parser makes of it: the quads it holds and the formats it parses under.   *)
(* The promise is fulfilled with the store, or rejected with the parser's    *)
(* error, which is logged and thrown again.                                  *)

parseRdfTextToStore(text, format) ==
    IF format \in text.parsesAs
    THEN [rejected |-> FALSE, store |-> text.quads]
    ELSE [rejected |-> TRUE, store |-> <<>>]

-----------------------------------------------------------------------------
(* handleFilesSelected, main.js 29-74.  An invocation is the record of one   *)
(* call: its files, how far each file has come (pending, reading: file.text()*)
(* is awaited, parsing: parseRdfTextToStore is awaited, rendered, failed),   *)
(* the promise of the parse that is awaited, fileInfos, and whether the      *)
(* async function has ended.                                                 *)

\* ui-helpers.js: the card is appended to the container
renderOntologyCard(container, by, meta) ==
    Append(container, [by |-> by, meta |-> meta])

\* ui-helpers.js: the table is appended to the container
renderOntologyTable(container, by, meta, tableModel) ==
    Append(container, [by |-> by, meta |-> meta, tableModel |-> tableModel])

\* main.js 48-49, on the call: the loop awaits the text of the first file
stagesAtCall(files) ==
    [k \in 1..Len(files) |-> IF k = 1 THEN "reading" ELSE "pending"]

\* the parse started but not awaited: the loop goes on to the next file
stagesAfterTextNotAwaitingParse(stages, k) ==
    [j \in 1..Len(stages) |->
        IF j = k THEN "parsing"
        ELSE IF j = k + 1 /\ stages[j] = "pending" THEN "reading"
        ELSE stages[j]]

\* main.js 49-51: with the text of file k, the parse is started and awaited
stagesAfterText(stages, k) == [stages EXCEPT ![k] = "parsing"]

\* main.js 62-64 and 48-49: file k is rendered and the loop goes on to await
\* the text of the next file
stagesAfterRender(stages, k) ==
    [j \in 1..Len(stages) |->
        IF j = k THEN "rendered"
        ELSE IF j = k + 1 /\ stages[j] = "pending" THEN "reading"
        ELSE stages[j]]

\* main.js 67-69: the parse of file k was rejected, the loop is left
stagesAfterError(stages, k) == [stages EXCEPT ![k] = "failed"]

\* main.js 57-60
fileInfoOf(file, meta, st) ==
    [displayName |-> IF meta.ontologyName = Null \/ meta.ontologyName = <<>>
                     THEN file.name ELSE meta.ontologyName,
     quadCount |-> Len(st)]

\* main.js 29-49: the call up to the first await.  Without files it returns
\* at once; else the overlay is shown, both containers are emptied and the
\* text of the first file is awaited.
HandleFilesSelected(files) ==
    /\ Len(invocations) < MaxInvocations
    /\ IF Len(files) = 0
       THEN /\ invocations' = Append(invocations,
                   [files |-> files, stages |-> <<>>, promise |-> NotCalled,
                    fileInfos |-> <<>>, ended |-> TRUE])
            /\ UNCHANGED <<cardsContainer, tablesContainer, loadingOverlay>>
       ELSE /\ invocations' = Append(invocations,
                   [files |-> files, stages |-> stagesAtCall(files),
                    promise |-> NotCalled, fileInfos |-> <<>>, ended |-> FALSE])
            /\ loadingOverlay' = TRUE
            /\ cardsContainer' = <<>>
            /\ tablesContainer' = <<>>
    /\ UNCHANGED <<nameVars, formatVars, literalVars, store, preferredVars, model, viewVars,
                   alerts, fileList>>

\* main.js 49-51: file.text() of file k is fulfilled; the format is detected,
\* parseRdfTextToStore runs and its promise is awaited
TextFulfilled(b, k) ==
    /\ ~invocations[b].ended
    /\ invocations[b].stages[k] = "reading"
    /\ LET file == invocations[b].files[k]
           format == detectRdfFormatFromFilename(file.name)
       IN  invocations' = [invocations EXCEPT
               ![b].stages = stagesAfterText(invocations[b].stages, k),
               ![b].promise = Returned(parseRdfTextToStore(file.text, format))]
    /\ UNCHANGED <<nameVars, formatVars, literalVars, store, preferredVars, model, viewVars,
                   cardsContainer, tablesContainer, loadingOverlay, alerts, fileList>>

\* main.js 51-66, 70-72: the parse of file k is fulfilled; metadata and table
\* are built and rendered; then the text of the next file is awaited, or,
\* after the last file, the file list is rendered and the overlay hidden
ParseFulfilled(b, k) ==
    /\ ~invocations[b].ended
    /\ invocations[b].stages[k] = "parsing"
    /\ ~invocations[b].promise[1].rejected
    /\ LET file == invocations[b].files[k]
           st == invocations[b].promise[1].store
           meta == extractOntologyMetadata(st)
           tableModel == buildElementTableModel(st)
           fileInfos == Append(invocations[b].fileInfos, fileInfoOf(file, meta, st))
           last == k = Len(invocations[b].files)
       IN  /\ invocations' = [invocations EXCEPT
                  ![b].stages = stagesAfterRender(invocations[b].stages, k),
                  ![b].promise = NotCalled,
                  ![b].fileInfos = fileInfos,
                  ![b].ended = last]
           /\ cardsContainer' = renderOntologyCard(cardsContainer, b, meta)
           /\ tablesContainer' = renderOntologyTable(tablesContainer, b, meta, tableModel)
           /\ fileList' = IF last THEN Returned(fileInfos) ELSE fileList
           /\ loadingOverlay' = IF last THEN FALSE ELSE loadingOverlay
    /\ UNCHANGED <<nameVars, formatVars, literalVars, store, preferredVars, model, viewVars, alerts>>

\* main.js 67-72: the parse of file k is rejected; the error is logged, the
\* alert is shown and the overlay hidden, and the function ends
ParseRejected(b, k) ==
    /\ ~invocations[b].ended
    /\ invocations[b].stages[k] = "parsing"
    /\ invocations[b].promise[1].rejected
    /\ invocations' = [invocations EXCEPT
           ![b].stages = stagesAfterError(invocations[b].stages, k),
           ![b].promise = NotCalled,
           ![b].ended = TRUE]
    /\ alerts' = alerts + 1
    /\ loadingOverlay' = FALSE
    /\ UNCHANGED <<nameVars, formatVars, literalVars, store, preferredVars, model, viewVars,
                   cardsContainer, tablesContainer, fileList>>

\* the documents a user may select
OntologyText ==
    [quads |-> << quad(namedNode(EX_O), namedNode(rdfType), namedNode(NS.owl \o LN_Ontology)),
                  quad(namedNode(EX_O), namedNode(NS.dcterms \o LN_title), literal(<<"T">>, <<"e","n">>)),
                  quad(namedNode(EX_A), namedNode(rdfType), namedNode(NS.owl \o LN_Class)) >>,
     parsesAs |-> {"text/turtle", "application/trig"}]
TriplesText ==
    [quads |-> << quad(namedNode(EX_B), namedNode(rdfType), namedNode(NS.owl \o LN_ObjectProperty)) >>,
     parsesAs |-> {"text/turtle", "application/trig", "application/n-triples",
                   "application/n-quads"}]
MalformedText == [quads |-> <<>>, parsesAs |-> {}]
\* the files of the folder the user selects from, as the file dialog lists them
Folder ==
    << [name |-> <<"a", ".", "t", "t", "l">>, text |-> OntologyText],
       [name |-> <<"c", ".", "t", "t", "l">>, text |-> MalformedText],
       [name |-> <<"b", ".", "N", "T">>, text |-> TriplesText] >>

\* a selection: at most MaxFiles files of the folder, in the order of the dialog
FileLists ==
    {SelectSeq(Folder, LAMBDA f : f \in chosen) :
        chosen \in {c \in SUBSET {Folder[i] : i \in 1..Len(Folder)} :
                       Cardinality(c) <= MaxFiles}}

Init ==
    /\ PageIdle
    /\ NameIdle /\ LiteralIdle /\ PreferredIdle /\ TableIdle /\ ViewIdle /\ FormatIdle

Next ==
    \/ \E files \in FileLists : HandleFilesSelected(files)
    \/ \E b \in 1..Len(invocations) : \E k \in 1..Len(invocations[b].files) :
          TextFulfilled(b, k)
    \/ \E b \in 1..Len(invocations) : \E k \in 1..Len(invocations[b].files) :
          ParseFulfilled(b, k)
    \/ \E b \in 1..Len(invocations) : \E k \in 1..Len(invocations[b].files) :
          ParseRejected(b, k)

Spec == Init /\ [][Next]_vars

-----------------------------------------------------------------------------
(* What the claims say, stated apart from the functions above. *)

MinOf(S) == CHOOSE i \in S : \A j \in S : i <= j

Reverse(seq) == [i \in 1..Len(seq) |-> seq[Len(seq) + 1 - i]]

\* the elements of seq, each once, in the order of their first occurrence
DistinctInOrder(seq) ==
    LET firsts == {i \in 1..Len(seq) : \A j \in 1..(i - 1) : seq[j] # seq[i]}
        nth[k \in 1..Cardinality(firsts)] ==
            CHOOSE i \in firsts : Cardinality({j \in firsts : j < i}) = k - 1
    IN  [k \in 1..Cardinality(firsts) |-> seq[nth[k]]]

\* every order in which a store may enumerate the quads of seq
EnumerationsOf(seq) ==
    {[i \in 1..Len(seq) |-> seq[f[i]]] : f \in Permutations(1..Len(seq))}

\* the maximal runs of letters and digits of a string
RECURSIVE AlnumRuns(_, _)
AlnumRuns(s, run) ==
    LET closed == IF run = <<>> THEN <<>> ELSE <<run>>
    IN  IF s = <<>> THEN closed
        ELSE IF s[1] \in AlnumChars THEN AlnumRuns(Tail(s), Append(run, s[1]))
        ELSE closed \o AlnumRuns(Tail(s), <<>>)

RECURSIVE CapitalizedConcat(_)
CapitalizedConcat(runs) ==
    IF runs = <<>> THEN <<>>
    ELSE <<UpperCaseOf[runs[1][1]]>> \o Tail(runs[1]) \o CapitalizedConcat(Tail(runs))

(* C6: toPascalCase returns "Ontology" for null, for the empty string and for
   every name without a letter or digit (only spaces or punctuation); for every
   other name it returns the segments between the runs of other characters,
   each with its first character in upper case, concatenated. *)
C6_PascalCaseOrFallback ==
    pascal # NotCalled =>
        pascal[1] = IF name = Null \/ AlnumRuns(name, <<>>) = <<>>
                    THEN STR_Ontology
                    ELSE CapitalizedConcat(AlnumRuns(name, <<>>))

\* the spellings of the language tag "en"
EnTags == { <<"e", "n">>, <<"E", "n">>, <<"e", "N">>, <<"E", "N">> }

ExpectedBestLiteral(lits) ==
    IF lits = NullList \/ lits = <<>> THEN NullTerm
    ELSE LET en == {i \in 1..Len(lits) : lits[i].language \in EnTags}
             untagged == {i \in 1..Len(lits) : lits[i].language = <<>>}
         IN  IF en # {} THEN lits[MinOf(en)]
             ELSE IF untagged # {} THEN lits[MinOf(untagged)]
             ELSE lits[1]

(* C4: pickBestLiteral returns the first literal tagged "en" in any letter
   case if there is one, else the first literal without a language tag if there
   is one, else the first literal of the list, and null for an empty or absent
   list. *)
C4_PickBestLiteral ==
    best # NotCalled => best[1] = ExpectedBestLiteral(literals)

\* an upper-case EN in third place wins over a French and an untagged literal
C4_Witness ==
    /\ best # NotCalled
    /\ literals # NullList
    /\ Len(literals) = 3
    /\ literals[1].language = <<"f", "r">>
    /\ literals[2].language = <<>>
    /\ literals[3].language = <<"E", "N">>
    /\ best[1] = literals[3]

\* the literal objects of the triples with subject s and predicate p in enumeration order
LiteralObjectsOf(st, s, p) ==
    LET hits == SelectSeq(st, LAMBDA q : /\ q.subject = namedNode(s)
                                         /\ q.predicate = namedNode(p)
                                         /\ q.object.termType = "Literal")
    IN  [i \in 1..Len(hits) |-> hits[i].object]

(* C9: getPreferredLiteralForPredicates returns the value of pickBestLiteral
   over the literal objects of the first listed predicate that has a literal
   object at all, whatever the later predicates carry, and null when no listed
   predicate has one. *)
C9_FirstPredicateWithLiteralWins ==
    preferred # NotCalled =>
        LET having == {i \in 1..Len(predicateIris) :
                          LiteralObjectsOf(store, subjectIri, predicateIris[i]) # <<>>}
        IN  preferred[1] =
                IF having = {} THEN Null
                ELSE pickBestLiteral(LiteralObjectsOf(store, subjectIri,
                                         predicateIris[MinOf(having)])).value

\* rdfs:label has only a French literal, dcterms:title an English one, and the
\* French label is returned
C9_Witness ==
    /\ preferred # NotCalled
    /\ Len(predicateIris) = 3
    /\ \A l \in {LiteralObjectsOf(store, subjectIri, predicateIris[1])[i] :
                    i \in 1..Len(LiteralObjectsOf(store, subjectIri, predicateIris[1]))} :
            l.language = <<"f", "r">>
    /\ \E i \in 1..Len(LiteralObjectsOf(store, subjectIri, predicateIris[2])) :
            LiteralObjectsOf(store, subjectIri, predicateIris[2])[i].language = <<"e", "n">>
    /\ preferred[1] = <<"L">>

\* the five types that make a subject an element
ElementTypeNodes ==
    {namedNode(NS.owl \o ln) : ln \in {LN_Class, LN_NamedIndividual, LN_ObjectProperty,
                                        LN_DatatypeProperty, LN_AnnotationProperty}}

\* an IRI subject with an rdf:type triple whose object is one of the five types
IsElement(st, s) ==
    /\ s.termType = "NamedNode"
    /\ \E i \in 1..Len(st) : /\ st[i].subject = s
                             /\ st[i].predicate = namedNode(rdfType)
                             /\ st[i].object \in ElementTypeNodes

\* the elements in the order the enumeration of the store first meets them
ElementIrisInEnumerationOrder(st) ==
    LET subjects == DistinctInOrder([i \in 1..Len(st) |-> st[i].subject])
        elements == SelectSeq(subjects, LAMBDA s : IsElement(st, s))
    IN  [i \in 1..Len(elements) |-> elements[i].value]

RowIris(m) == [i \in 1..Len(m.rows) |-> m.rows[i][STR_iri]]

(* C1: the iri values of the rows are exactly the distinct IRI subjects that
   have an rdf:type triple to owl:Class, owl:NamedIndividual,
   owl:ObjectProperty, owl:DatatypeProperty or owl:AnnotationProperty, each
   once, in the order the enumeration of the store first meets them; a blank
   node or a subject typed only with other classes has no row. *)
C1_RowsAreTheElements ==
    model # NotCalled => RowIris(model[1]) = ElementIrisInEnumerationOrder(store)

\* the predicates with a value on a subject that has a row
UsedPredicates(st, m) ==
    {st[i].predicate.value : i \in {j \in 1..Len(st) :
        /\ st[j].subject.termType = "NamedNode"
        /\ st[j].object.termType # "BlankNode"
        /\ InSeq(RowIris(m), st[j].subject.value)}}

\* rdf:type, rdfs:label, skos:altLabel, skos:definition first, in that order,
\* then the other predicates by ascending display form
InColumnOrder(preds) ==
    \A i, j \in 1..Len(preds) : i < j =>
        IF InSeq(priorityPreds, preds[i]) /\ InSeq(priorityPreds, preds[j])
        THEN IndexOf(priorityPreds, preds[i]) < IndexOf(priorityPreds, preds[j])
        ELSE IF InSeq(priorityPreds, preds[j]) THEN FALSE
        ELSE IF InSeq(priorityPreds, preds[i]) THEN TRUE
        ELSE localeCompare(iriToCurieIfCommon(preds[i]), iriToCurieIfCommon(preds[j])) <= 0

(* C2: the predicate columns are the used ones among rdf:type, rdfs:label,
   skos:altLabel and skos:definition in that order, then the other used
   predicates by ascending display form, and every enumeration order of the
   same quads gives the same headers and the same predicates. *)
C2_ColumnOrderIgnoresEnumeration ==
    model # NotCalled =>
        LET preds == Tail(model[1].predicates)
        IN  /\ {preds[i] : i \in 1..Len(preds)} = UsedPredicates(store, model[1])
            /\ InColumnOrder(preds)
            /\ \A other \in EnumerationsOf(store) :
                  /\ buildElementTableModel(other).headers = model[1].headers
                  /\ buildElementTableModel(other).predicates = model[1].predicates

\* the display values of the non-blank objects of the triples with subject s and predicate p
CellValuesOf(st, s, p) ==
    LET hits == SelectSeq(st, LAMBDA q : /\ q.subject = namedNode(s)
                                         /\ q.predicate.value = p
                                         /\ q.object.termType # "BlankNode")
    IN  DistinctInOrder([i \in 1..Len(hits) |-> hits[i].object.value])

\* the labels of the blank nodes of a store
BlankLabels(st) ==
    {t.value : t \in {x \in {st[i].subject : i \in 1..Len(st)}
                            \cup {st[i].object : i \in 1..Len(st)} :
                         x.termType = "BlankNode"}}

(* C3: every cell row[p] is the values of the non-blank objects of the
   triples with subject row.iri and predicate p, each once in the order of first occurrence, joined
   with a semicolon and a space; it is empty when there is none, and the label
   of a blank node is in no cell. *)
C3_CellsJoinDistinctValues ==
    model # NotCalled =>
        LET preds == Tail(model[1].predicates)
        IN  \A r \in 1..Len(model[1].rows) : \A k \in 1..Len(preds) :
                LET row == model[1].rows[r]
                    cell == row[preds[k]]
                IN  /\ cell = join(CellValuesOf(store, row[STR_iri], preds[k]),
                                   STR_semicolonSpace)
                    /\ \A b \in BlankLabels(store) : ~includes(cell, b)

\* a row whose label cell joins two values, one of them met twice in the store
C3_Witness ==
    /\ model # NotCalled
    /\ \E r \in 1..Len(model[1].rows) :
          /\ NS.rdfs \o LN_label \in DOMAIN model[1].rows[r]
          /\ model[1].rows[r][NS.rdfs \o LN_label] = <<"x", ";", " ", "y">>
          /\ \E i, j \in 1..Len(store) :
                /\ i # j
                /\ store[i].subject.value = model[1].rows[r][STR_iri]
                /\ store[j].subject = store[i].subject
                /\ store[i].predicate = namedNode(NS.rdfs \o LN_label)
                /\ store[j].predicate = store[i].predicate
                /\ store[i].object.value = store[j].object.value

\* two characters that are the same letter but for the case
SameLetter(c, d) == LowerCaseOf[c] = LowerCaseOf[d]

\* s has a substring that is q letter for letter, the case apart
ContainsIgnoringCase(s, q) ==
    \E i \in 0..(Len(s) - Len(q)) : \A k \in 1..Len(q) : SameLetter(s[i + k], q[k])

\* the rows with a field that contains the query; all rows for no query
MatchingRows(m, qry) ==
    IF qry = Null \/ qry = <<>> THEN m.rows
    ELSE SelectSeq(m.rows, LAMBDA row :
             \E k \in DOMAIN row : ContainsIgnoringCase(row[k], qry))

IsPermutationOf(a, b) ==
    /\ Len(a) = Len(b)
    /\ \A x \in {a[i] : i \in 1..Len(a)} \cup {b[i] : i \in 1..Len(b)} :
          Cardinality({i \in 1..Len(a) : a[i] = x})
              = Cardinality({i \in 1..Len(b) : b[i] = x})

IrisNonDecreasing(rows) ==
    \A i \in 1..(Len(rows) - 1) :
        localeCompare(rows[i][STR_iri], rows[i + 1][STR_iri]) <= 0

IrisNonIncreasing(rows) ==
    \A i \in 1..(Len(rows) - 1) :
        localeCompare(rows[i][STR_iri], rows[i + 1][STR_iri]) >= 0

\* no two of the rows have iri values that compare equal
NoEqualIris(rows) ==
    \A i, j \in 1..Len(rows) :
        i # j => localeCompare(rows[i][STR_iri], rows[j][STR_iri]) # 0

(* C7, as claimed: sorted by column 0, ascending gives a permutation of the
   filtered rows with non-decreasing iri values, and descending gives exactly
   the reverse of the ascending sequence. *)
C7_DescendingIsReverseOfAscending ==
    (view # NotCalled /\ sortIndex = <<0>>) =>
        LET ascending == filterAndSortRows(model[1], query, <<0>>, "asc")
        IN  /\ IsPermutationOf(ascending, MatchingRows(model[1], query))
            /\ IrisNonDecreasing(ascending)
            /\ sortDirection = "asc" => view[1] = ascending
            /\ sortDirection = "desc" => view[1] = Reverse(ascending)

\* rows of the result whose iri values compare equal stand in the order they
\* have in the original sequence
TiesKeepOrder(result, original) ==
    \A i, j \in 1..Len(result) :
        (i < j /\ localeCompare(result[i][STR_iri], result[j][STR_iri]) = 0) =>
            \E k, l \in 1..Len(original) :
                k < l /\ original[k] = result[i] /\ original[l] = result[j]

(* C7, amended: sorted by column 0, ascending gives a permutation of the
   filtered rows with non-decreasing iri values; descending gives a permutation
   of them with non-increasing iri values, which is the reverse of the
   ascending sequence whenever no two of the filtered rows have iri values
   that compare equal; in both directions rows whose iri values compare equal
   keep their relative order. *)
C7_SortByIri ==
    (view # NotCalled /\ sortIndex = <<0>>) =>
        LET matching == MatchingRows(model[1], query)
            ascending == filterAndSortRows(model[1], query, <<0>>, "asc")
        IN  /\ IsPermutationOf(view[1], matching)
            /\ TiesKeepOrder(view[1], matching)
            /\ sortDirection = "asc" => IrisNonDecreasing(view[1])
            /\ sortDirection = "desc" =>
                  /\ IrisNonIncreasing(view[1])
                  /\ NoEqualIris(matching) => view[1] = Reverse(ascending)

\* three rows, not in ascending order in the model, sorted descending
C7_Witness ==
    /\ view # NotCalled
    /\ sortIndex = <<0>>
    /\ sortDirection = "desc"
    /\ Len(view[1]) = 3
    /\ NoEqualIris(view[1])
    /\ ~IrisNonDecreasing(model[1].rows)
    /\ ~IrisNonIncreasing(model[1].rows)
    /\ view[1] = Reverse(filterAndSortRows(model[1], query, <<0>>, "asc"))

(* C8: when sortIndex is null, negative or not below the number of headers,
   the result is the subsequence of model.rows, in their order, of the rows
   with a field (the iri or a cell) that contains the query, the case of the
   letters apart; for an empty or absent query it is model.rows. *)
C8_NoValidColumnOnlyFilters ==
    (view # NotCalled
        /\ (sortIndex = NoIndex \/ sortIndex[1] < 0
               \/ sortIndex[1] >= Len(model[1].headers))) =>
        /\ view[1] = MatchingRows(model[1], query)
        /\ (query = Null \/ query = <<>>) => view[1] = model[1].rows

\* an index equal to the number of headers and a query in upper case that
\* keeps the second of three rows, which are not in sorted order
C8_Witness ==
    /\ view # NotCalled
    /\ sortIndex = <<2>>
    /\ Len(model[1].headers) = 2
    /\ query = <<"E", "X", ":", "B">>
    /\ Len(model[1].rows) = 3
    /\ ~IrisNonDecreasing(model[1].rows)
    /\ view[1] = <<model[1].rows[2]>>

InFlight(stages) == {k \in 1..Len(stages) : stages[k] \in {"reading", "parsing"}}

(* C5, as claimed: a parse error ends the work on its own file only; when the
   parse of a file of a batch has failed and the call has ended, every later
   file of the batch has been read, parsed and rendered (or has failed in its
   turn), and the failure has been reported. *)
C5_ParseErrorSparesLaterFiles ==
    \A b \in 1..Len(invocations) :
        LET stages == invocations[b].stages
        IN  invocations[b].ended =>
                \A i \in 1..Len(stages) : stages[i] = "failed" =>
                    /\ alerts >= 1
                    /\ \A k \in (i + 1)..Len(stages) : stages[k] \in {"rendered", "failed"}

(* C10: within one call the files are handled strictly one after the other:
   at most one file is being read or parsed, and no file leaves the pending
   stage before the file in front of it is rendered. *)
C10_FilesInSequence ==
    \A b \in 1..Len(invocations) :
        LET stages == invocations[b].stages
        IN  /\ Cardinality(InFlight(stages)) <= 1
            /\ \A k \in 1..(Len(stages) - 1) :
                  stages[k + 1] # "pending" => stages[k] = "rendered"

\* the second file of a call is being parsed, the first has its card and table
C10_Witness ==
    \E b \in 1..Len(invocations) :
        /\ Len(invocations[b].stages) >= 2
        /\ invocations[b].stages[1] = "rendered"
        /\ invocations[b].stages[2] = "parsing"
        /\ \E c \in 1..Len(cardsContainer) : cardsContainer[c].by = b
        /\ \E c \in 1..Len(tablesContainer) : tablesContainer[c].by = b

(* C11: filterAndSortRows leaves its model as buildElementTableModel built it
   (rows, headers and predicates), whatever calls were made before, so the
   result of a call is the one the same arguments give on the built model. *)
C11_ModelIsNeverMutated ==
    model # NotCalled =>
        /\ model[1] = buildElementTableModel(store)
        /\ view # NotCalled =>
              view[1] = filterAndSortRows(buildElementTableModel(store),
                                          query, sortIndex, sortDirection)

\* a call without a query, so that filtered is model.rows itself, whose sort
\* by the iri column gives an order that is not the order of model.rows
C11_Witness ==
    /\ model # NotCalled
    /\ view # NotCalled
    /\ query \in {Null, <<>>}
    /\ sortIndex = <<0>>
    /\ Len(view[1]) >= 2
    /\ view[1] # model[1].rows
    /\ model[1] = buildElementTableModel(store)

\* the name ends with ext, the case of the letters apart
HasExtension(nm, ext) ==
    /\ Len(nm) >= Len(ext)
    /\ \A k \in 1..Len(ext) : SameLetter(nm[Len(nm) - Len(ext) + k], ext[k])

\* two names that differ in the case of letters only
SameButForCase(a, b) ==
    /\ a # Null /\ b # Null
    /\ Len(a) = Len(b)
    /\ \A k \in 1..Len(a) : SameLetter(a[k], b[k])

ExpectedFormat(nm) ==
    LET written == IF nm = Null THEN <<>> ELSE nm
    IN  CASE HasExtension(written, <<".","n","t">>) -> "application/n-triples"
          [] HasExtension(written, <<".","n","q">>) -> "application/n-quads"
          [] HasExtension(written, <<".","t","r","i","g">>) -> "application/trig"
          [] OTHER -> "text/turtle"

(* C12: for every file name, null and empty included, the hint is one of the
   four; .nt gives application/n-triples, .nq application/n-quads, .trig
   application/trig, .ttl, .n3 and every other or missing extension
   text/turtle, the case of the letters apart; names that differ in letter
   case only get the same hint. *)
C12_FormatFromExtension ==
    detectedFormat # NotCalled =>
        /\ detectedFormat[1] \in {"text/turtle", "application/n-triples",
                          "application/n-quads", "application/trig"}
        /\ detectedFormat[1] = ExpectedFormat(givenFilename)
        /\ \A other \in FilenameInputs :
              SameButForCase(other, givenFilename) =>
                  detectRdfFormatFromFilename(other) = detectedFormat[1]

\* a name with an upper case letter in its extension that does not get the
\* fallback hint
C12_Witness ==
    /\ detectedFormat # NotCalled
    /\ givenFilename # Null
    /\ ~endsWith(givenFilename, <<".","n","q">>)
    /\ detectedFormat[1] = "application/n-quads"

\* the invocations whose output a container holds
RenderedBy(container) == {container[i].by : i \in 1..Len(container)}

(* C13: at every moment the cards container and the tables container hold the
   output of one invocation of handleFilesSelected only, also when an
   invocation starts while an earlier one is awaiting a file read or a
   parse. *)
C13_BatchesNeverInterleave ==
    Cardinality(RenderedBy(cardsContainer) \cup RenderedBy(tablesContainer)) <= 1

=============================================================================
